---------------------------- MODULE Spec2Model ----------------------------
(***************************************************************************)
(* Model of movie.py: a Flask application that loads dataset.csv, builds a *)
(* TF-IDF/cosine similarity matrix over the overviews, and answers         *)
(* /recommend requests with the five records most similar to a title.      *)
(*                                                                         *)
(* A title, a poster URL or a requested name is a sequence of              *)
(* one-character strings.  An overview, which may run past 150 characters, *)
(* is kept run-length encoded: a sequence of runs <<c, n>>, n >= 1, with   *)
(* no two neighbouring runs of the same character.  Corpus positions are   *)
(* 0-based as in Python; a TLA+ sequence s holds position i at s[i + 1].   *)
(* Similarity scores are integers in units of 1/10000 (10000 = 1.0).       *)
(***************************************************************************)
EXTENDS Integers, Sequences, FiniteSets, TLC

VARIABLES
    dataset,            \* dataset.csv on disk
    launch,             \* "script": python movie.py; "wsgi": module imported by a host
    pc,                 \* position of the start-up code
    init_result,        \* what initialize_app() returned: "none" (not yet), "true", "false"
    movies_df,          \* module global movies_df
    similarity_matrix,  \* module global similarity_matrix
    cache,              \* the lru_cache(maxsize=1) of compute_similarity
    resp,               \* the last response produced by a route, with the locals of the call
    rebuilds,           \* how many times initialize_app was called again after its first return
    req,                \* the /recommend request between its checks and its call of recommend
    sim_source,         \* history: the record list similarity_matrix was computed from
    used                \* history: the record list the last call of recommend was given, and
                        \*   the record list its matrix was computed from

vars == <<dataset, launch, pc, init_result, movies_df, similarity_matrix, cache, resp,
          rebuilds, req, sim_source, used>>

---------------------------------------------------------------------------
(* Bounds of the model *)

\* longest varied head of dataset.csv
MaxRows == 2
\* a file appends no filler row to its head, one, or a run of this length
MaxPad == 5
\* how often the host calls initialize_app again
MaxRebuilds == 1
\* longest dataset.csv of a host that rebuilds the index
MaxRebuildRows == 2

(* Program constants *)

\* sorted(...)[1:6]
SliceStart == 1
SliceEnd == 6
\* movie_data['overview'][:150], len(...) > 150
OverviewLimit == 150
\* round(score, 3), in units of 1/10000
RoundUnit == 10

\* "..."
Ellipsis == << <<".", 3>> >>
\* "https://via.placeholder.com/200x300?text=No+Image"
Placeholder == <<"p", "l", "a", "c", "e", "h", "o", "l", "d", "e", "r">>

---------------------------------------------------------------------------
(* Values *)

\* Python None, for the two globals and for function results
None == [isNone |-> TRUE]
IsNone(x) == x.isNone

\* a cell of the data frame: pandas NaN, or a value
NaN == [na |-> TRUE]
Cell(value) == [na |-> FALSE, s |-> value]
notna(cell) == ~cell.na

\* the text c repeated n times
Text(c, n) == IF n = 0 THEN <<>> ELSE << <<c, n>> >>

RECURSIVE TLen(_)
\* len() of a run-length encoded text
TLen(t) == IF t = <<>> THEN 0 ELSE Head(t)[2] + TLen(Tail(t))

RECURSIVE TPrefix(_, _)
\* t[:n] of a run-length encoded text
TPrefix(t, n) ==
    IF t = <<>> \/ n <= 0 THEN <<>>
    ELSE IF Head(t)[2] <= n THEN <<Head(t)>> \o TPrefix(Tail(t), n - Head(t)[2])
    ELSE << <<Head(t)[1], n>> >>

\* a + b of run-length encoded texts
TConcat(a, b) ==
    IF a = <<>> THEN b
    ELSE IF b = <<>> THEN a
    ELSE IF a[Len(a)][1] = b[1][1]
    THEN SubSeq(a, 1, Len(a) - 1) \o << <<b[1][1], a[Len(a)][2] + b[1][2]>> >> \o Tail(b)
    ELSE a \o b

\* str.lower() on one character
LowerChar(c) ==
    CASE c = "U" -> "u"
      [] c = "P" -> "p"
      [] c = "Z" -> "z"
      [] OTHER -> c

\* str.lower()
Lower(s) == [i \in 1..Len(s) |-> LowerChar(s[i])]

IsSpace(c) == c = " "

RECURSIVE LStrip(_)
LStrip(s) == IF s # <<>> /\ IsSpace(Head(s)) THEN LStrip(Tail(s)) ELSE s

RECURSIVE RStrip(_)
RStrip(s) ==
    IF s # <<>> /\ IsSpace(s[Len(s)]) THEN RStrip(SubSeq(s, 1, Len(s) - 1)) ELSE s

\* str.strip()
Strip(s) == RStrip(LStrip(s))

Min(a, b) == IF a < b THEN a ELSE b

---------------------------------------------------------------------------
(* dataset.csv *)

\* overview texts: "t" stands for an English stop word, every other
\* character for a vocabulary term
OvShort == Text("a", 3)
OvLong == Text("b", OverviewLimit + 1)
OvEdge == Text("c", OverviewLimit)
OvStop == Text("t", 2)

StopWords == {"t"}

\* raw rows of the file; an empty field is <<>>
RowCatalogue ==
    { [Title |-> <<"U", "p">>, Overview |-> OvShort, Poster_Url |-> <<"u", "1">>],
      [Title |-> <<"u", "p">>, Overview |-> OvShort, Poster_Url |-> <<>>],
      [Title |-> <<"Z">>,      Overview |-> OvLong,  Poster_Url |-> <<"u", "3">>],
      [Title |-> <<"U", "P">>, Overview |-> OvStop,  Poster_Url |-> <<" ">>],
      [Title |-> <<"Q">>,      Overview |-> OvEdge,  Poster_Url |-> <<>>],
      [Title |-> <<>>,         Overview |-> OvShort, Poster_Url |-> <<"u", "6">>],
      [Title |-> <<"W">>,      Overview |-> <<>>,    Poster_Url |-> <<"u", "7">>] }

FillerRow == [Title |-> <<"Z", "Z">>, Overview |-> OvLong, Poster_Url |-> <<"u", "8">>]

Heads == UNION { [1..n -> RowCatalogue] : n \in 0..MaxRows }

Files ==
    { [exists |-> TRUE, columns |-> TRUE, rows |-> h \o [i \in 1..p |-> FillerRow]] :
        h \in Heads, p \in {0, 1, MaxPad} }
    \cup { [exists |-> FALSE, columns |-> TRUE, rows |-> <<>>],
           [exists |-> TRUE, columns |-> FALSE, rows |-> <<>>] }

---------------------------------------------------------------------------
(* load_data *)

\* a reader that keeps an empty field as the empty string (keep_default_na=False)
read_field_keep_empty(f) == Cell(f)

\* pd.read_csv on one field: an empty field is read as NaN
read_field(f) == IF f = <<>> THEN NaN ELSE Cell(f)

\* pd.read_csv and the rename of the three columns; labels are 0..n-1
read_csv(rows) ==
    [ rows  |-> [i \in 1..Len(rows) |->
                    [title      |-> read_field(rows[i].Title),
                     overview   |-> read_field(rows[i].Overview),
                     poster_url |-> read_field(rows[i].Poster_Url)]],
      index |-> [i \in 1..Len(rows) |-> i - 1] ]

RECURSIVE KeptFrom(_, _)
\* the places i..Len(rows) of the rows with neither title nor overview missing
KeptFrom(rows, i) ==
    IF i > Len(rows) THEN <<>>
    ELSE (IF notna(rows[i].title) /\ notna(rows[i].overview) THEN <<i>> ELSE <<>>)
         \o KeptFrom(rows, i + 1)

\* df.dropna(subset=['title', 'overview']): rows keep their order and labels
dropna(df) ==
    LET kept == KeptFrom(df.rows, 1)
    IN  [ rows  |-> [k \in 1..Len(kept) |-> df.rows[kept[k]]],
          index |-> [k \in 1..Len(kept) |-> df.index[kept[k]]] ]

\* a cleaning step that keeps the labels dropna left
reset_index_missing(df) == df

\* df.reset_index(drop=True)
reset_index(df) == [df EXCEPT !.index = [k \in 1..Len(df.rows) |-> k - 1]]

load_data(file) ==
    IF ~file.exists THEN None
    ELSE IF ~file.columns THEN None
    ELSE LET df == reset_index(dropna(read_csv(file.rows)))
         IN  IF Len(df.rows) = 0 THEN None
             ELSE [isNone |-> FALSE, rows |-> df.rows, index |-> df.index]


---------------------------------------------------------------------------
(* compute_similarity *)

\* the vocabulary terms of a text: its characters that are no stop word
Terms(text) == { text[i][1] : i \in 1..Len(text) } \ StopWords

\* values hash(str(movies_df.values.tobytes())) may take
HashValues == {"h1", "h2"}

\* cosine similarities the library may report for two texts with different
\* non-empty term sets
Levels == {1231, 1234}
ScoreOne == 10000

TermSets == { Terms(r.Overview) : r \in RowCatalogue \cup {FillerRow} } \ {{}}
TermPairs == { p \in SUBSET TermSets : Cardinality(p) = 2 }

\* TfidfVectorizer(...).fit_transform(overview.fillna('')) and
\* cosine_similarity: entry (i, j) under the pairwise levels f.  The
\* numbers are the library's; the model keeps what the library guarantees:
\* the matrix is symmetric, a text with no vocabulary term is the zero
\* vector and has similarity 0 to everything, itself included, and texts
\* with the same terms have the similarity of a text to itself.
cosine_similarity(rows, f) ==
    LET T(i) == Terms(IF notna(rows[i].overview) THEN rows[i].overview.s ELSE <<>>)
    IN  [i \in 1..Len(rows) |-> [j \in 1..Len(rows) |->
            IF T(i) = {} \/ T(j) = {} THEN 0
            ELSE IF T(i) = T(j) THEN ScoreOne
            ELSE f[{T(i), T(j)}]]]

\* the body of compute_similarity: what it may return with the global
\* movies_df = df.  An empty vocabulary makes fit_transform raise, which the
\* except clause turns into None.
compute_body(df) ==
    IF IsNone(df) THEN {None}
    ELSE IF \A i \in 1..Len(df.rows) : Terms(df.rows[i].overview.s) = {} THEN {None}
    ELSE { [isNone |-> FALSE, m |-> cosine_similarity(df.rows, f)] :
             f \in [TermPairs -> Levels] }

\* @lru_cache(maxsize=1): a call with the cached key returns the cached value
compute_similarity(df_hash, df, c) ==
    IF ~IsNone(c) /\ c.key = df_hash THEN {c.value} ELSE compute_body(df)

---------------------------------------------------------------------------
(* recommend *)

\* The columns hold text.  When df and the matrix are the two results of
\* one initialize_app, the matrix has one row per record and no statement
\* of the try block raises; recommend_raises tells when one does.

RECURSIVE MatchesExactFrom(_, _, _)
\* a lookup that compares the titles as written
MatchesExactFrom(movie_title, df, i) ==
    IF i > Len(df.rows) THEN <<>>
    ELSE (IF notna(df.rows[i].title) /\ df.rows[i].title.s = movie_title
          THEN <<df.index[i]>> ELSE <<>>)
         \o MatchesExactFrom(movie_title, df, i + 1)

RECURSIVE MatchesFrom(_, _, _)
\* df[df['title'].str.lower() == movie_title.lower()].index
MatchesFrom(movie_title, df, i) ==
    IF i > Len(df.rows) THEN <<>>
    ELSE (IF notna(df.rows[i].title) /\ Lower(df.rows[i].title.s) = Lower(movie_title)
          THEN <<df.index[i]>> ELSE <<>>)
         \o MatchesFrom(movie_title, df, i + 1)

movie_matches(movie_title, df) == MatchesFrom(movie_title, df, 1)

\* list(enumerate(similarity_matrix[index]))
distances(index, sim) ==
    LET row == sim.m[index + 1]
    IN  [i \in 1..Len(row) |-> <<i - 1, row[i]>>]

\* a descending sort step that puts x before the elements of equal key
InsertDescUnstable(sorted, x) ==
    LET k == Cardinality({ j \in 1..Len(sorted) : sorted[j][2] > x[2] })
    IN  SubSeq(sorted, 1, k) \o <<x>> \o SubSeq(sorted, k + 1, Len(sorted))

\* one step of a stable descending sort: x goes after every element whose
\* key is at least its own
InsertDesc(sorted, x) ==
    LET k == Cardinality({ j \in 1..Len(sorted) : sorted[j][2] >= x[2] })
    IN  SubSeq(sorted, 1, k) \o <<x>> \o SubSeq(sorted, k + 1, Len(sorted))

RECURSIVE SortedDesc(_)
\* sorted(s, key=lambda x: x[1], reverse=True): stable, equal keys keep
\* their original order
SortedDesc(s) ==
    IF s = <<>> THEN <<>>
    ELSE InsertDesc(SortedDesc(SubSeq(s, 1, Len(s) - 1)), s[Len(s)])

\* s[a:b]
Slice(s, a, b) == SubSeq(s, a + 1, Min(b, Len(s)))

\* sorted(distances, ...)[1:6]
sorted_distances(index, sim) ==
    Slice(SortedDesc(distances(index, sim)), SliceStart, SliceEnd)

\* a truncation that also cuts a text of exactly 150 characters
shape_overview_off_by_one(overview) ==
    IF TLen(overview.s) >= OverviewLimit
    THEN Cell(TConcat(TPrefix(overview.s, OverviewLimit), Ellipsis))
    ELSE overview

\* movie_data['overview'][:150] + "..." if len(...) > 150 else movie_data['overview']
shape_overview(overview) ==
    IF TLen(overview.s) > OverviewLimit
    THEN Cell(TConcat(TPrefix(overview.s, OverviewLimit), Ellipsis))
    ELSE overview

\* movie_data['poster_url'] if pd.notna(...) else the placeholder
shape_poster(poster_url) == IF notna(poster_url) THEN poster_url ELSE Cell(Placeholder)

\* round(score, 3), in units of 1/1000; no score of the model lies halfway
\* between two thousandths
round3(score) == (score + RoundUnit \div 2) \div RoundUnit

\* one entry of the recommendations list, for the pair (i, score)
recommendation(pair, df) ==
    LET movie_data == df.rows[pair[1] + 1]
    IN  [ title            |-> movie_data.title,
          overview         |-> shape_overview(movie_data.overview),
          poster_url       |-> shape_poster(movie_data.poster_url),
          similarity_score |-> round3(pair[2]) ]

\* a lookup that takes the last matching record instead of the first
recommend_locals_last(movie_title, df, sim) ==
    LET matches == movie_matches(movie_title, df)
    IN  IF matches = <<>>
        THEN [found |-> FALSE, index |-> -1, sorted_distances |-> <<>>]
        ELSE [found |-> TRUE, index |-> matches[Len(matches)],
              sorted_distances |-> sorted_distances(matches[Len(matches)], sim)]

\* the locals of one call of recommend
recommend_locals(movie_title, df, sim) ==
    LET matches == movie_matches(movie_title, df)
    IN  IF matches = <<>>
        THEN [found |-> FALSE, index |-> -1, sorted_distances |-> <<>>]
        ELSE [found |-> TRUE, index |-> matches[1],
              sorted_distances |-> sorted_distances(matches[1], sim)]

\* a statement of recommend's try block raises: df is None (line 84), or a
\* record matched and the matrix is None or has no row for its label (line
\* 93), or a kept position is beyond the end of df (line 98)
recommend_raises(movie_title, df, sim) ==
    \/ IsNone(df)
    \/ /\ movie_matches(movie_title, df) # <<>>
       /\ \/ IsNone(sim)
          \/ movie_matches(movie_title, df)[1] + 1 > Len(sim.m)
          \/ LET kept == sorted_distances(movie_matches(movie_title, df)[1], sim)
             IN  \E k \in 1..Len(kept) : kept[k][1] + 1 > Len(df.rows)

\* the list recommend returns, from its locals
recommendations_of(loc, df) ==
    IF ~loc.found THEN <<>>
    ELSE [k \in 1..Len(loc.sorted_distances) |->
             recommendation(loc.sorted_distances[k], df)]

\* recommend(movie_title, df, similarity_matrix); the except clause returns []
recommend(movie_title, df, sim) ==
    IF recommend_raises(movie_title, df, sim) THEN <<>>
    ELSE recommendations_of(recommend_locals(movie_title, df, sim), df)

---------------------------------------------------------------------------
(* Routes *)

\* ord() of the characters titles are written in
CharCode(c) ==
    CASE c = " " -> 32
      [] c = "P" -> 80
      [] c = "Q" -> 81
      [] c = "U" -> 85
      [] c = "W" -> 87
      [] c = "Z" -> 90
      [] c = "p" -> 112
      [] c = "u" -> 117
      [] OTHER -> 0

RECURSIVE StrLess(_, _)
\* a < b on Python strings
StrLess(a, b) ==
    IF b = <<>> THEN FALSE
    ELSE IF a = <<>> THEN TRUE
    ELSE IF CharCode(Head(a)) # CharCode(Head(b)) THEN CharCode(Head(a)) < CharCode(Head(b))
    ELSE StrLess(Tail(a), Tail(b))

InsertAsc(sorted, x) ==
    LET k == Cardinality({ j \in 1..Len(sorted) : ~StrLess(x, sorted[j]) })
    IN  SubSeq(sorted, 1, k) \o <<x>> \o SubSeq(sorted, k + 1, Len(sorted))

RECURSIVE SortedAsc(_)
\* sorted(movies_df['title'].tolist())
SortedAsc(s) ==
    IF s = <<>> THEN <<>>
    ELSE InsertAsc(SortedAsc(SubSeq(s, 1, Len(s) - 1)), s[Len(s)])

\* request bodies of POST /recommend
MovieNames ==
    { <<"U", "p">>, <<"u", "P">>, <<"U">>, <<"U", "p", "Z">>, <<"Z">>, <<"Z", "Z">>,
      <<" ", "U", "P", " ">>, <<" ">>, <<>> }

Bodies ==
    { [kind |-> k, movie |-> <<>>] : k \in {"empty", "nokey", "nonstring"} }
    \cup { [kind |-> "str", movie |-> n] : n \in MovieNames }

NoLocals == [found |-> FALSE, index |-> -1, sorted_distances |-> <<>>]

\* a response; df_none and sim_none are the globals as the route saw them,
\* called tells whether recommend was called, locals are recommend's
Response(route, status, error, body, name, called, locals) ==
    [ route |-> route, status |-> status, error |-> error, body |-> body,
      movie_name |-> name, called |-> called, locals |-> locals,
      df_none |-> IsNone(movies_df), sim_none |-> IsNone(similarity_matrix) ]

NoResponse ==
    [ route |-> "none", status |-> 0, error |-> "", body |-> <<>>,
      movie_name |-> <<>>, called |-> FALSE, locals |-> NoLocals,
      df_none |-> TRUE, sim_none |-> TRUE ]

\* the response of index()
index_response ==
    IF IsNone(movies_df)
    THEN Response("index", 200, "Failed to load movie data", <<>>, <<>>, FALSE, NoLocals)
    ELSE IF Len(movies_df.rows) = 0
    THEN Response("index", 200, "No valid movies found", <<>>, <<>>, FALSE, NoLocals)
    ELSE Response("index", 200, "",
                  SortedAsc([i \in 1..Len(movies_df.rows) |-> movies_df.rows[i].title.s]),
                  <<>>, FALSE, NoLocals)

\* get_recommendations() up to the two tests of the globals (lines 609-623)
\* on the JSON body data: "empty" is {}, "nokey" an object without 'movie',
\* "nonstring" a 'movie' that is no string, whose .strip() raises into the
\* except clause.  ok tells that the request goes on to call recommend.
precheck(data) ==
    LET Fail(status, error, name) ==
            [ok |-> FALSE, name |-> name,
             resp |-> Response("recommend", status, error, <<>>, name, FALSE, NoLocals)]
    IN  IF data.kind \in {"empty", "nokey"}
        THEN Fail(400, "Movie name is required", <<>>)
        ELSE IF data.kind = "nonstring"
        THEN Fail(500, "Internal server error occurred", <<>>)
        ELSE LET movie_name == Strip(data.movie) IN
             IF movie_name = <<>>
             THEN Fail(400, "Movie name cannot be empty", movie_name)
             ELSE IF IsNone(movies_df)
             THEN Fail(500, "Movie database not available", movie_name)
             ELSE IF IsNone(similarity_matrix)
             THEN Fail(500, "Recommendation system not ready", movie_name)
             ELSE [ok |-> TRUE, name |-> movie_name, resp |-> NoResponse]

\* get_recommendations() from the call of recommend on (lines 625-630)
call_recommend(movie_name, df, sim) ==
    IF recommend_raises(movie_name, df, sim)
    THEN Response("recommend", 404, "No recommendations found", <<>>, movie_name, TRUE, NoLocals)
    ELSE LET locals == recommend_locals(movie_name, df, sim)
             recommendations == recommendations_of(locals, df)
         IN  IF recommendations = <<>>
             THEN Response("recommend", 404, "No recommendations found", <<>>, movie_name, TRUE, locals)
             ELSE Response("recommend", 200, "", recommendations, movie_name, TRUE, locals)

\* the response of get_recommendations() to the JSON body data
recommend_response(data) ==
    IF precheck(data).ok
    THEN call_recommend(precheck(data).name, movies_df, similarity_matrix)
    ELSE precheck(data).resp

\* no request is between its checks and its call
Idle == [stage |-> "idle", name |-> <<>>]

\* recommend was not called
NoUse == [df |-> None, source |-> None]

---------------------------------------------------------------------------
(* The program *)

Init ==
    /\ dataset \in Files
    /\ launch \in {"script", "wsgi"}
    /\ pc = "start"
    /\ init_result = "none"
    /\ movies_df = None
    /\ similarity_matrix = None
    /\ cache = None
    /\ resp = NoResponse
    /\ rebuilds = 0
    /\ req = Idle
    /\ sim_source = None
    /\ used = NoUse

\* initialize_app, first half: movies_df = load_data(); a failed load
\* returns False at once
InitLoad ==
    /\ pc = "start"
    /\ movies_df' = load_data(dataset)
    /\ IF IsNone(movies_df')
       THEN pc' = "returned" /\ init_result' = "false"
       ELSE pc' = "loaded" /\ init_result' = init_result
    /\ UNCHANGED <<dataset, launch, similarity_matrix, cache, resp>>
    /\ UNCHANGED <<rebuilds, req, sim_source, used>>

\* initialize_app, second half: similarity_matrix = compute_similarity(df_hash)
\* and the return
InitCompute ==
    /\ pc = "loaded"
    /\ \E df_hash \in HashValues :
         \E value \in compute_similarity(df_hash, movies_df, cache) :
            /\ similarity_matrix' = value
            /\ cache' = [isNone |-> FALSE, key |-> df_hash, value |-> value]
            /\ init_result' = IF IsNone(value) THEN "false" ELSE "true"
            /\ sim_source' = IF ~IsNone(cache) /\ cache.key = df_hash THEN sim_source
                             ELSE IF IsNone(value) THEN None
                             ELSE movies_df
    /\ pc' = "returned"
    /\ UNCHANGED <<dataset, launch, movies_df, resp, rebuilds, req, used>>

\* a start-up that serves whatever initialize_app returned
MainRunUnchecked ==
    /\ launch = "script" /\ pc = "returned"
    /\ pc' = "serving"
    /\ UNCHANGED <<dataset, launch, init_result, movies_df, similarity_matrix, cache, resp>>
    /\ UNCHANGED <<rebuilds, req, sim_source, used>>

\* __main__: if initialize_app(): app.run(...)
MainRun ==
    /\ launch = "script" /\ pc = "returned" /\ init_result = "true"
    /\ pc' = "serving"
    /\ UNCHANGED <<dataset, launch, init_result, movies_df, similarity_matrix, cache, resp>>
    /\ UNCHANGED <<rebuilds, req, sim_source, used>>

\* __main__: else: print the failure, and the process ends
MainFail ==
    /\ launch = "script" /\ pc = "returned" /\ init_result = "false"
    /\ pc' = "exited"
    /\ UNCHANGED <<dataset, launch, init_result, movies_df, similarity_matrix, cache, resp>>
    /\ UNCHANGED <<rebuilds, req, sim_source, used>>

\* requests reach the routes once app.run serves; a host that imports the
\* module serves its app object whether or not it has called initialize_app,
\* which it calls synchronously
Accepting ==
    \/ launch = "script" /\ pc = "serving"
    \/ launch = "wsgi" /\ pc # "loaded"

\* GET /
index ==
    /\ Accepting
    /\ resp' = index_response
    /\ used' = NoUse
    /\ UNCHANGED <<dataset, launch, pc, init_result, movies_df, similarity_matrix, cache>>
    /\ UNCHANGED <<rebuilds, req, sim_source>>

\* POST /recommend
get_recommendations ==
    /\ Accepting
    /\ \E data \in Bodies : resp' = recommend_response(data)
    /\ used' = IF resp'.called THEN [df |-> movies_df, source |-> sim_source] ELSE NoUse
    /\ UNCHANGED <<dataset, launch, pc, init_result, movies_df, similarity_matrix, cache>>
    /\ UNCHANGED <<rebuilds, req, sim_source>>

Next ==
    \/ InitLoad
    \/ InitCompute
    \/ MainRun
    \/ MainFail
    \/ index
    \/ get_recommendations

Spec == Init /\ [][Next]_vars

---------------------------------------------------------------------------
(* The program under a host that rebuilds the index *)

\* The module has no caller of initialize_app but __main__.  A host that
\* imports it may call initialize_app again, after dataset.csv changed,
\* from a thread of its own while the server's threads handle requests.
\* A request then runs between any two statements of initialize_app, and
\* initialize_app between a request's tests of the globals (lines 619-623)
\* and its call of recommend (line 625), which reads them again.

\* the files of such a host: short, and no row with an empty field
RebuildFiles ==
    { f \in Files :
        /\ Len(f.rows) <= MaxRebuildRows
        /\ \A i \in 1..Len(f.rows) :
              /\ f.rows[i].Title # <<>>
              /\ f.rows[i].Overview # <<>>
              /\ f.rows[i].Poster_Url # <<>> }

InitRebuild ==
    /\ dataset \in RebuildFiles
    /\ launch = "wsgi"
    /\ pc = "start"
    /\ init_result = "none"
    /\ movies_df = None
    /\ similarity_matrix = None
    /\ cache = None
    /\ resp = NoResponse
    /\ rebuilds = 0
    /\ req = Idle
    /\ sim_source = None
    /\ used = NoUse

\* dataset.csv is replaced and the host calls initialize_app again
StartRebuild ==
    /\ pc = "returned" /\ rebuilds < MaxRebuilds
    /\ dataset' \in RebuildFiles
    /\ rebuilds' = rebuilds + 1
    /\ pc' = "start"
    /\ init_result' = "none"
    /\ UNCHANGED <<launch, movies_df, similarity_matrix, cache, resp, req, sim_source, used>>

\* POST /recommend up to the tests of the globals: a request that fails one
\* is answered, the others go on
RequestCheck ==
    /\ req.stage = "idle"
    /\ \E data \in Bodies :
         IF precheck(data).ok
         THEN /\ req' = [stage |-> "checked", name |-> precheck(data).name]
              /\ UNCHANGED <<resp, used>>
         ELSE /\ resp' = precheck(data).resp
              /\ used' = NoUse
              /\ req' = req
    /\ UNCHANGED <<dataset, launch, pc, init_result, movies_df, similarity_matrix, cache>>
    /\ UNCHANGED <<rebuilds, sim_source>>

\* POST /recommend from the call of recommend on, with the globals as they
\* are now
RequestCall ==
    /\ req.stage = "checked"
    /\ resp' = call_recommend(req.name, movies_df, similarity_matrix)
    /\ used' = [df |-> movies_df, source |-> sim_source]
    /\ req' = Idle
    /\ UNCHANGED <<dataset, launch, pc, init_result, movies_df, similarity_matrix, cache>>
    /\ UNCHANGED <<rebuilds, sim_source>>

NextRebuild ==
    \/ InitLoad
    \/ InitCompute
    \/ StartRebuild
    \/ RequestCheck
    \/ RequestCall

SpecRebuild == InitRebuild /\ [][NextRebuild]_vars

---------------------------------------------------------------------------
(* Vocabulary of the properties *)

\* the last response is that of a /recommend request that called recommend;
\* both globals were set then and are never assigned again
Called == resp.route = "recommend" /\ resp.called

\* ... and the requested title matched a record
Matched == Called /\ resp.locals.found

\* the (position, score) pairs recommend kept, and the corpus size
Picked == resp.locals.sorted_distances
CorpusSize == Len(movies_df.rows)

\* the record at a 0-based corpus position
RecordAt(i) == movies_df.rows[i + 1]

\* the positions of the records whose lower-cased title is that of t
SameTitle(t) ==
    { i \in 0..(CorpusSize - 1) :
        notna(RecordAt(i).title) /\ Lower(RecordAt(i).title.s) = Lower(t) }

\* the titles a caller may pass to recommend
TitleInputs == { Strip(n) : n \in MovieNames } \ {<<>>}

\* a occurs in b and is shorter
ProperSubstring(a, b) ==
    /\ Len(a) < Len(b)
    /\ \E k \in 1..(Len(b) - Len(a) + 1) : SubSeq(b, k, k + Len(a) - 1) = a

\* what the caller of /recommend can tell one response from another by,
\* apart from the name it sent itself
Visible(r) == <<r.status, r.error, r.body>>

---------------------------------------------------------------------------
(* C1 *)

\* C1: the list recommend returns for a matched title never contains the
\* matched record's own corpus position.
C1_NeverRecommendsItself ==
    Matched => \A k \in 1..Len(Picked) : Picked[k][1] # resp.locals.index

---------------------------------------------------------------------------
(* C2 *)

---------------------------------------------------------------------------
(* C3 *)

\* C3: for a corpus of N >= 1 records and a matched title, the request
\* yields exactly min(5, N - 1) recommendations and no error.
C3_CountWithoutError ==
    Matched =>
        /\ Len(Picked) = Min(SliceEnd - SliceStart, CorpusSize - 1)
        /\ resp.status = 200
        /\ Len(resp.body) = Min(SliceEnd - SliceStart, CorpusSize - 1)

---------------------------------------------------------------------------
(* C4 *)

\* C4: the outcome for a title that matches no record differs from the
\* outcome of every request whose title matches a record.
C4_NotFoundDistinguishable ==
    (Called /\ ~resp.locals.found) =>
        \A data \in Bodies :
            LET other == recommend_response(data)
            IN  (other.called /\ other.locals.found) => Visible(other) # Visible(resp)

---------------------------------------------------------------------------
(* C5 *)

\* C5: recommend returns the same list for every title equal to the
\* requested one after lower-casing, and it finds a record exactly when
\* some record's lower-cased title equals the lower-cased request, so a
\* proper substring or superstring of a title matches nothing.
C5_CaseInsensitiveExactMatch ==
    Called =>
        /\ \A t \in TitleInputs :
              Lower(t) = Lower(resp.movie_name) =>
                  recommend(t, movies_df, similarity_matrix) = resp.body
        /\ resp.locals.found <=> SameTitle(resp.movie_name) # {}

\* the two cases: a match through a different spelling, and no match for
\* a name that is a proper part of a stored title
C5_Witness ==
    /\ Called
    /\ \/ /\ resp.locals.found
          /\ resp.body # <<>>
          /\ \A i \in SameTitle(resp.movie_name) : RecordAt(i).title.s # resp.movie_name
       \/ /\ ~resp.locals.found
          /\ \E i \in 0..(CorpusSize - 1) :
                ProperSubstring(resp.movie_name, RecordAt(i).title.s)

---------------------------------------------------------------------------
(* C6 *)

\* C6: when several records share the lower-cased title, recommend ranks
\* the similarity row of the one at the smallest corpus position, whatever
\* the spelling of the requested title.
C6_FirstDuplicateUsed ==
    Matched =>
        LET first == CHOOSE i \in SameTitle(resp.movie_name) :
                        \A j \in SameTitle(resp.movie_name) : i <= j
        IN  /\ resp.locals.index = first
            /\ \A k \in 1..Len(Picked) :
                  Picked[k][2] = similarity_matrix.m[first + 1][Picked[k][1] + 1]
            /\ \A t \in TitleInputs :
                  Lower(t) = Lower(resp.movie_name) =>
                      recommend_locals(t, movies_df, similarity_matrix).index = first

\* two records share the title, and their similarity rows differ
C6_Witness ==
    /\ Matched
    /\ \E i, j \in SameTitle(resp.movie_name) :
          /\ i < j
          /\ similarity_matrix.m[i + 1] # similarity_matrix.m[j + 1]
    /\ Picked # <<>>

---------------------------------------------------------------------------
(* C7 *)

\* C7: a returned overview is the source's first 150 characters followed
\* by "..." (153 characters) when the source has more than 150, and the
\* source unchanged otherwise.
C7_TruncationLaw ==
    (Called /\ resp.status = 200) =>
        \A k \in 1..Len(resp.body) :
            LET src == RecordAt(Picked[k][1]).overview.s
                out == resp.body[k].overview.s
            IN  IF TLen(src) > OverviewLimit
                THEN /\ TLen(out) = OverviewLimit + 3
                     /\ TPrefix(out, OverviewLimit) = TPrefix(src, OverviewLimit)
                     /\ out[Len(out)] = <<".", 3>>
                ELSE out = src

\* one list with a truncated overview and one of exactly 150 characters
C7_Witness ==
    /\ Called /\ resp.status = 200
    /\ \E k \in 1..Len(resp.body) : TLen(RecordAt(Picked[k][1]).overview.s) > OverviewLimit
    /\ \E k \in 1..Len(resp.body) : TLen(RecordAt(Picked[k][1]).overview.s) = OverviewLimit

---------------------------------------------------------------------------
(* C8 *)

\* C8: a returned poster_url is the stored value when there is one and the
\* placeholder when the record has none; it is never empty or missing.
C8_PosterFallback ==
    (Called /\ resp.status = 200) =>
        \A k \in 1..Len(resp.body) :
            LET src == RecordAt(Picked[k][1]).poster_url
                out == resp.body[k].poster_url
            IN  /\ notna(src) => out = src
                /\ ~notna(src) => out = Cell(Placeholder)
                /\ notna(out) /\ out.s # <<>>

\* one list with a stored poster and a missing one
C8_Witness ==
    /\ Called /\ resp.status = 200
    /\ \E k \in 1..Len(resp.body) : notna(RecordAt(Picked[k][1]).poster_url)
    /\ \E k \in 1..Len(resp.body) : ~notna(RecordAt(Picked[k][1]).poster_url)

---------------------------------------------------------------------------
(* C9 *)

NotReadyErrors == {"Movie database not available", "Recommendation system not ready"}

\* the last response answered a /recommend request while a global was None
HandledBeforeIndex == resp.route = "recommend" /\ (resp.df_none \/ resp.sim_none)

\* app.run only serves after initialize_app returned True
ServesOnlyAfterInit ==
    pc = "serving" =>
        init_result = "true" /\ ~IsNone(movies_df) /\ ~IsNone(similarity_matrix)

\* C9 as stated: every /recommend request handled while movies_df or
\* similarity_matrix is None ends in the not-available/not-ready failure
\* without reaching recommend, and app.run starts only after a successful
\* initialize_app.
C9_AsStated ==
    /\ HandledBeforeIndex =>
          ~resp.called /\ resp.status = 500 /\ resp.error \in NotReadyErrors
    /\ ServesOnlyAfterInit

\* C9 amended: such a request never reaches recommend and never gets a
\* list; it ends in the not-available/not-ready failure when it carries a
\* non-empty movie name, and in the failure of the request validation
\* otherwise; app.run starts only after a successful initialize_app.
C9_NoListBeforeIndex ==
    /\ HandledBeforeIndex =>
          /\ ~resp.called /\ resp.status # 200 /\ resp.body = <<>>
          /\ IF resp.movie_name # <<>>
             THEN resp.status = 500 /\ resp.error \in NotReadyErrors
             ELSE resp.status \in {400, 500} /\ resp.error \notin NotReadyErrors
    /\ ServesOnlyAfterInit

\* a named request answered while the record list is set and the matrix
\* is not
C9_Witness ==
    /\ HandledBeforeIndex
    /\ ~resp.df_none /\ resp.sim_none
    /\ resp.movie_name # <<>>
    /\ resp.error = "Recommendation system not ready"

---------------------------------------------------------------------------
(* C10 *)

\* C10: after initialize_app returned False, movies_df and
\* similarity_matrix are either both set or both None.
C10_NoPartialIndex ==
    init_result = "false" => (IsNone(movies_df) <=> IsNone(similarity_matrix))

---------------------------------------------------------------------------
(* C12 *)

\* the rows of dataset.csv as read, and the places of those with a title
\* and an overview
RawRows == read_csv(dataset.rows).rows
ValidPlaces == { i \in 1..Len(RawRows) : notna(RawRows[i].title) /\ notna(RawRows[i].overview) }

\* the k-th valid place, in file order
ValidPlace(k) ==
    CHOOSE i \in ValidPlaces : Cardinality({ j \in ValidPlaces : j <= i }) = k

\* C12: the records load_data keeps are the valid rows of the file in file
\* order, labelled 0..N-1; the label recommend takes from the title match
\* is the matched record's position, the matrix has one row per record
\* whose diagonal entry is that record's self-similarity and the scores
\* read are those of the matched record's row, and every returned entry is
\* the record at the position of its (position, score) pair.
C12_PositionalIdentity ==
    /\ ~IsNone(movies_df) =>
          /\ CorpusSize = Cardinality(ValidPlaces)
          /\ \A k \in 1..CorpusSize :
                /\ movies_df.rows[k] = RawRows[ValidPlace(k)]
                /\ movies_df.index[k] = k - 1
    /\ (~IsNone(movies_df) /\ ~IsNone(similarity_matrix)) =>
          /\ Len(similarity_matrix.m) = CorpusSize
          /\ \A i \in 0..(CorpusSize - 1) :
                similarity_matrix.m[i + 1][i + 1] =
                    IF Terms(RecordAt(i).overview.s) = {} THEN 0 ELSE ScoreOne
    /\ Matched =>
          /\ Lower(RecordAt(resp.locals.index).title.s) = Lower(resp.movie_name)
          /\ \A k \in 1..Len(Picked) :
                Picked[k][2] = similarity_matrix.m[resp.locals.index + 1][Picked[k][1] + 1]
          /\ \A k \in 1..Len(resp.body) :
                /\ resp.body[k].title = RecordAt(Picked[k][1]).title
                /\ resp.body[k].similarity_score = round3(Picked[k][2])

\* a list returned from a corpus whose file has an invalid row before the
\* matched record and before a returned one
C12_Witness ==
    /\ Matched /\ resp.status = 200
    /\ ValidPlace(resp.locals.index + 1) # resp.locals.index + 1
    /\ \E k \in 1..Len(Picked) : ValidPlace(Picked[k][1] + 1) # Picked[k][1] + 1

---------------------------------------------------------------------------
(* C11 *)

\* C11: every request that calls recommend gives it a record list and a
\* similarity matrix of one corpus snapshot: the matrix was computed from
\* that very record list.
C11_SameSnapshot ==
    Called =>
        /\ ~IsNone(used.df) /\ ~IsNone(used.source)
        /\ used.df = used.source

===========================================================================
